---------------------------- MODULE Spec2Model ----------------------------
(* Delivery route optimizer (riaacordero/project-vrp).                      *)
(*                                                                          *)
(* Components modelled:                                                     *)
(*   - ORSClient.get_distance_matrix / _process_large_matrix                *)
(*       (delivery-route-optimizer/src/utils/ors_client.py)                 *)
(*   - RouteOptimizer, current revision (src/models/route_optimizer.py)     *)
(*   - RouteOptimizer, earlier revision                                     *)
(*       (delivery-route-optimizer/src/models/route_optimizer.py)           *)
(*   - RouteValidator.compare_methods and calculate_metrics                 *)
(*       (src/utils/route_validator.py)                                     *)
(*   - process_dataset: validation, zone grouping and zone clock, and       *)
(*       main's check of its result (src/main.py)                           *)
(*                                                                          *)
(* Conventions: a coordinate is a location id (an integer); the routing     *)
(* backend is a fixed pair of tables over location ids.  Lists that the     *)
(* code indexes from 0 are functions over 0..n-1.  Distances are meters,    *)
(* matrix cells are what the backend returns for metrics=['duration'].      *)
EXTENDS Integers, Sequences, FiniteSets, TLC

VARIABLES
    \* ---- RouteOptimizer (both revisions) ----
    impl,               \* "current" | "earlier": which revision is running
    all_coordinates,    \* [0..N -> location], index 0 = hub
    customer_data,      \* [1..N -> row] (row k is iloc[k-1])
    distance_matrix,    \* NoMatrix or the matrix stored by optimize_route
    visited,            \* self.visited
    current_location,   \* self.current_location
    route_info,         \* the list being built by the running call
    opt_pc,             \* "idle" | "loop" | "done" | "raised"
    calls,              \* number of optimize_route calls started
    returned,           \* the lists returned so far, one per finished call
    scan,               \* distances looked up by the last find_nearest_point
    failures,           \* point-to-point queries that raised so far
    queried,            \* point-to-point queries sent by get_route_distance
    \* ---- ORSClient.get_distance_matrix ----
    coordinates,        \* argument of get_distance_matrix
    result,             \* np.zeros((n, n)) being filled / returned matrix
    batch_i,            \* loop variable i of _process_large_matrix
    requests,           \* sub-requests sent to the backend, in order
    mat_pc,             \* "idle" | "batching" | "returned" | "raised"
    \* ---- RouteValidator ----
    stops,              \* self.stops
    unvisited_stops,    \* local of get_nearest_neighbor_route_detailed
    nn_built,           \* local 'route' of get_nearest_neighbor_route_detailed
    nn_location,        \* local current_location of the same method
    nn_route,           \* compare_methods' nn_route (the method's return value)
    results,            \* value returned by compare_methods
    val_pc,             \* "idle" | "nn" | "score" | "returned"
    val_failed,         \* a backend query raised inside compare_methods
    \* ---- RouteValidator.calculate_metrics ----
    met_route,          \* argument 'route'
    met_k,              \* stops of 'for stop in route' already handled
    met_current,        \* local 'current'
    met_distance,       \* local total_distance (meters)
    met_time,           \* local total_time (seconds)
    met_pc,             \* "idle" | "loop" | "returned" | "raised"
    \* ---- RouteValidator.get_euclidean_route ----
    euc_remaining,      \* local remaining_stops (a copy of self.stops)
    euc_route,          \* local 'route'
    euc_current,        \* local 'current'
    euc_pc,             \* "idle" | "loop" | "returned"
    \* ---- process_dataset ----
    route_sequence,     \* list returned by optimize_route
    zones,              \* ordered dict zone -> list of stops
    grp_i,              \* position of the grouping loop in route_sequence
    zone_i,             \* position of the outer zone loop
    stop_i,             \* position of the inner stop loop (enumerate from 1)
    current_time,       \* seconds since midnight
    validation_results, \* process_dataset's validation_results
    main_status,        \* main(): "none" | "error" | "mapped" for the dataset
    zone_pc             \* "idle" | "validating" | "validated" | "group" |
                        \* "zones" | "returned" | "raised"

optVars  == <<impl, all_coordinates, customer_data, distance_matrix, visited,
              current_location, route_info, opt_pc, calls, returned, scan,
              failures, queried>>
matVars  == <<coordinates, result, batch_i, requests, mat_pc>>
metVars  == <<met_route, met_k, met_current, met_distance, met_time,
              met_pc>>
eucVars  == <<euc_remaining, euc_route, euc_current, euc_pc>>
valVars  == <<stops, unvisited_stops, nn_built, nn_location, nn_route,
              results, val_pc, val_failed, metVars, eucVars>>
zoneVars == <<route_sequence, zones, grp_i, zone_i, stop_i, current_time,
              validation_results, main_status,
              zone_pc>>
vars     == <<optVars, matVars, valVars, zoneVars>>

-----------------------------------------------------------------------------
(* Bounds of the model *)

MaxStops    == 3    \* delivery points given to a RouteOptimizer
NumLoc      == 3    \* distinct locations a delivery point can have
MaxCalls    == 2    \* optimize_route calls on one instance
MaxFailures == 1    \* point-to-point queries that may raise in one run
MaxPoints   == 91   \* points given to get_distance_matrix (three blocks)

-----------------------------------------------------------------------------
(* Values *)

None       == "None"

(* self.distance_matrix before the first matrix request: no rows *)
NoMatrix   == <<>>
HubLoc     == 0
OutsideLoc == -1
Infinity   == 1000000000

Abs(x) == IF x < 0 THEN -x ELSE x
Min(x, y) == IF x <= y THEN x ELSE y
Size(f) == Cardinality(DOMAIN f)

(* Locations with a negative id lie on or just beyond the edges of the     *)
(* box of ORSClient._validate_coordinates: -1 west, -2 east, -3 south and  *)
(* -4 north of it, -5 and -6 on its south-west and north-east corners.     *)
EdgeLocs == (-6)..(-1)

(* Coordinates of a location in hundredths of a degree. *)
Lon(loc) ==
    CASE loc = OutsideLoc -> 12449
      [] loc = -2         -> 12651
      [] loc = -5         -> 12450
      [] loc = -6         -> 12650
      [] OTHER            -> 12500 + Abs(loc)

Lat(loc) ==
    CASE loc = -3 -> 599
      [] loc = -4 -> 851
      [] loc = -5 -> 600
      [] loc = -6 -> 850
      [] OTHER    -> 700

-----------------------------------------------------------------------------
(* The routing backend *)

(* Road distance in meters of the directions response for a -> b;          *)
(* not symmetric, zero for coinciding points, with ties.                    *)
RoadMeters(a, b) ==
    IF a = b THEN 0
    ELSE 500 * Abs(a - b) + (IF a > b THEN 500 ELSE 0)

(* Travel duration in seconds of the matrix response for a -> b.            *)
DurationSec(a, b) ==
    IF a = b THEN 0
    ELSE 60 * Abs(a - b) + 10 * (a % 4) + (IF a < b THEN 90 ELSE 0)

-----------------------------------------------------------------------------
(* ORSClient *)

max_batch == 45

(* 'if not (124.5 <= lon <= 126.5 and 6.0 <= lat <= 8.5)' *)
InBoundsNoSouthEdge(coord) ==
    /\ 12450 <= Lon(coord) /\ Lon(coord) <= 12650
    /\ Lat(coord) <= 850

InBounds(coord) ==
    /\ 12450 <= Lon(coord) /\ Lon(coord) <= 12650
    /\ 600 <= Lat(coord) /\ Lat(coord) <= 850

(* _validate_coordinates: False as soon as one coordinate is out of bounds *)
ValidateCoordinates(coords) ==
    { k \in DOMAIN coords : ~InBounds(coords[k]) } = {}

(* _request_matrix: asks metrics=['duration'] and returns 'durations'.      *)
RequestMatrix(coords) ==
    [a \in DOMAIN coords |->
        [b \in DOMAIN coords |-> DurationSec(coords[a], coords[b])]]

Zeros(n) == [r \in 0..(n - 1) |-> [c \in 0..(n - 1) |-> 0]]

(* coordinates[i:min(i + max_batch, n)] *)
Batch(coords, i) ==
    [k \in 0..(Min(i + max_batch, Size(coords)) - i - 1) |-> coords[i + k]]

(* 'for i in range(0, n, self.max_batch)': the next value of i *)
NextBatchStartOverlapping(i) == i + max_batch - 1

NextBatchStart(i) == i + max_batch

(* result[i:i + len, i:i + len] = sub_matrix *)
WriteBlockAtZero(res, i, len, sub) ==
    [r \in DOMAIN res |-> [c \in DOMAIN res |->
        IF r \in 0..(len - 1) /\ c \in 0..(len - 1)
        THEN sub[r][c] ELSE res[r][c]]]

WriteBlock(res, i, len, sub) ==
    [r \in DOMAIN res |-> [c \in DOMAIN res |->
        IF r \in i..(i + len - 1) /\ c \in i..(i + len - 1)
        THEN sub[r - i][c - i] ELSE res[r][c]]]

(* One iteration of the loop of _process_large_matrix. *)
BatchStep(coords, i, res) ==
    WriteBlock(res, i, Size(Batch(coords, i)), RequestMatrix(Batch(coords, i)))

RECURSIVE LargeFrom(_, _, _)
LargeFrom(coords, i, res) ==
    IF i >= Size(coords) THEN res
    ELSE LargeFrom(coords, NextBatchStart(i), BatchStep(coords, i, res))

ProcessLargeMatrix(coords) == LargeFrom(coords, 0, Zeros(Size(coords)))

(* Value of get_distance_matrix when no request fails. *)
GetDistanceMatrix(coords) ==
    IF Size(coords) <= max_batch THEN RequestMatrix(coords)
    ELSE ProcessLargeMatrix(coords)

(* Block of index k in the decomposition. *)
BlockOf(k) == k \div max_batch

-----------------------------------------------------------------------------
(* Idle values of the components a specification does not run *)

OptIdle ==
    /\ impl = "current"
    /\ all_coordinates = [k \in 0..0 |-> HubLoc]
    /\ customer_data = <<>>
    /\ distance_matrix = NoMatrix
    /\ visited = {0}
    /\ current_location = 0
    /\ route_info = <<>>
    /\ opt_pc = "idle"
    /\ calls = 0
    /\ returned = <<>>
    /\ scan = <<>>
    /\ failures = 0
    /\ queried = 0

MatIdle ==
    /\ coordinates = [k \in 0..0 |-> HubLoc]
    /\ result = None
    /\ batch_i = 0
    /\ requests = <<>>
    /\ mat_pc = "idle"

ValIdle ==
    /\ stops = <<>>
    /\ unvisited_stops = <<>>
    /\ nn_built = <<>>
    /\ nn_location = HubLoc
    /\ nn_route = None
    /\ results = None
    /\ val_pc = "idle"
    /\ val_failed = FALSE

MetIdle ==
    /\ met_route = <<>>
    /\ met_k = 0
    /\ met_current = HubLoc
    /\ met_distance = 0
    /\ met_time = 0
    /\ met_pc = "idle"

EucIdle ==
    /\ euc_remaining = <<>>
    /\ euc_route = <<>>
    /\ euc_current = HubLoc
    /\ euc_pc = "idle"

ZoneIdle ==
    /\ route_sequence = <<>>
    /\ zones = <<>>
    /\ grp_i = 0
    /\ zone_i = 0
    /\ stop_i = 0
    /\ current_time = 0
    /\ validation_results = None
    /\ main_status = "none"
    /\ zone_pc = "idle"

-----------------------------------------------------------------------------
(* ORSClient.get_distance_matrix, step by step *)

CoordinateLists ==
    { [k \in 0..(n - 1) |-> IF k = at THEN edge ELSE k \div dup] :
        n \in 1..MaxPoints, dup \in 1..2, at \in {-1, 0, MaxPoints - 1},
        edge \in EdgeLocs }

InitMatrix ==
    /\ OptIdle /\ ValIdle /\ MetIdle /\ EucIdle /\ ZoneIdle
    /\ coordinates \in CoordinateLists
    /\ result = None
    /\ batch_i = 0
    /\ requests = <<>>
    /\ mat_pc = "idle"

(* lines 52-53: a point outside the box raises before any request *)
GetDistanceMatrixInvalid ==
    /\ mat_pc = "idle"
    /\ ~ValidateCoordinates(coordinates)
    /\ mat_pc' = "raised"
    /\ UNCHANGED <<coordinates, result, batch_i, requests>>
    /\ UNCHANGED <<optVars, valVars, zoneVars>>

(* lines 55-56: one request for the whole list *)
GetDistanceMatrixSingle ==
    /\ mat_pc = "idle"
    /\ ValidateCoordinates(coordinates)
    /\ Size(coordinates) <= max_batch
    /\ \E ok \in BOOLEAN :
        /\ requests' = Append(requests, [from |-> 0, len |-> Size(coordinates)])
        /\ IF ok
           THEN /\ result' = RequestMatrix(coordinates)
                /\ mat_pc' = "returned"
           ELSE /\ result' = result
                /\ mat_pc' = "raised"
    /\ UNCHANGED <<coordinates, batch_i>>
    /\ UNCHANGED <<optVars, valVars, zoneVars>>

(* lines 58, 74-75: entry of _process_large_matrix *)
ProcessLargeMatrixBegin ==
    /\ mat_pc = "idle"
    /\ ValidateCoordinates(coordinates)
    /\ Size(coordinates) > max_batch
    /\ result' = Zeros(Size(coordinates))
    /\ batch_i' = 0
    /\ mat_pc' = "batching"
    /\ UNCHANGED <<coordinates, requests>>
    /\ UNCHANGED <<optVars, valVars, zoneVars>>

(* lines 77-80: one sub-request and the write of its block *)
ProcessLargeMatrixStep ==
    /\ mat_pc = "batching"
    /\ batch_i < Size(coordinates)
    /\ \E ok \in BOOLEAN :
        /\ requests' = Append(requests,
               [from |-> batch_i, len |-> Size(Batch(coordinates, batch_i))])
        /\ IF ok
           THEN /\ result' = BatchStep(coordinates, batch_i, result)
                /\ batch_i' = NextBatchStart(batch_i)
                /\ mat_pc' = "batching"
           ELSE /\ UNCHANGED <<result, batch_i>>
                /\ mat_pc' = "raised"
    /\ UNCHANGED coordinates
    /\ UNCHANGED <<optVars, valVars, zoneVars>>

(* line 82 *)
ProcessLargeMatrixReturn ==
    /\ mat_pc = "batching"
    /\ batch_i >= Size(coordinates)
    /\ mat_pc' = "returned"
    /\ UNCHANGED <<coordinates, result, batch_i, requests>>
    /\ UNCHANGED <<optVars, valVars, zoneVars>>

NextMatrix ==
    \/ GetDistanceMatrixInvalid
    \/ GetDistanceMatrixSingle
    \/ ProcessLargeMatrixBegin
    \/ ProcessLargeMatrixStep
    \/ ProcessLargeMatrixReturn

SpecMatrix == InitMatrix /\ [][NextMatrix]_vars

-----------------------------------------------------------------------------
(* RouteOptimizer: helpers shared by the two revisions *)

AVG_SPEED_KMH       == 30
IDLE_TIME_PER_HOUSE == 6
NumZones            == 2
MaxParcels          == 2
MaxLargeStops       == 47

BoolToInt(b) == IF b THEN 1 ELSE 0

(* ors_client.get_route_details(a, b)[...]['segments'][0]['distance'] *)
RouteDetailsDistance(a, b) == RoadMeters(a, b)

(* 'if distance < min_distance' of find_nearest_point *)
CloserOrEqual(distance, min_distance) == distance <= min_distance

Closer(distance, min_distance) == distance < min_distance

(* The for loop of find_nearest_point over idx = first..last; d holds the  *)
(* distance looked up for every unvisited idx; min_distance starts at inf, *)
(* nearest_idx at -1.                                                       *)
RECURSIVE ScanFrom(_, _, _, _, _, _)
ScanFrom(idx, last, vis, d, min_distance, nearest_idx) ==
    IF idx > last THEN nearest_idx
    ELSE IF idx \notin vis /\ Closer(d[idx], min_distance)
         THEN ScanFrom(idx + 1, last, vis, d, d[idx], idx)
         ELSE ScanFrom(idx + 1, last, vis, d, min_distance, nearest_idx)

(* 'while len(self.visited) < len(self.all_coordinates)' *)
LoopStopsEarly(n_visited, n_all) == n_visited < n_all - 1

LoopContinues(n_visited, n_all) == n_visited < n_all

(* self.visited.add(next_idx) *)
MarkVisited(vis, next_idx) == vis \cup {next_idx}

StopsOf(route) == [k \in 1..Len(route) |-> route[k].stop]

-----------------------------------------------------------------------------
(* RouteOptimizer, current revision (src/models/route_optimizer.py) *)

(* calculate_eta: minutes, kept in thousandths of a minute *)
CalculateEta(distance_km) ==
    (distance_km * 60 * 1000) \div AVG_SPEED_KMH + IDLE_TIME_PER_HOUSE * 1000

(* get_route_distance, lines 76-83: the direct query is sent first; the    *)
(* matrix cell is read in the except clause, when the query raised         *)
GetRouteDistanceCellFirst(start_idx, end_idx, raises) ==
    distance_matrix[start_idx][end_idx]

GetRouteDistance(start_idx, end_idx, raises) ==
    IF raises THEN distance_matrix[start_idx][end_idx]
    ELSE RouteDetailsDistance(all_coordinates[start_idx], all_coordinates[end_idx])

(* one iteration calls get_route_distance once per unvisited index (line  *)
(* 62), once for the chosen stop (line 100) and once from the hub (line    *)
(* 101); every call sends its query (line 76)                              *)
QueriesOfIteration(n_unvisited) == n_unvisited + 2

CurFindNearestPoint(vis, d) ==
    ScanFrom(0, Size(all_coordinates) - 1, vis, d, Infinity, -1)

(* 'self.visited = {0}' at the start of every call *)
KeepVisited(vis) == vis

ResetVisited(vis) == {0}

(* 'remaining_stops': len(self.all_coordinates) - len(self.visited) *)
CurRemainingStopsOffByOne(n_all, n_visited) == n_all - n_visited + 1

CurRemainingStops(n_all, n_visited) == n_all - n_visited

CurStopInfo(vis, next_idx, current_distance, hub_distance) ==
    [ stop_number       |-> Cardinality(vis) - 1,
      stop              |-> next_idx,
      zone              |-> customer_data[next_idx].zone,
      coordinates       |-> all_coordinates[next_idx],
      last_location     |-> all_coordinates[current_location],
      distance          |-> current_distance,
      distance_from_hub |-> hub_distance,
      eta               |-> CalculateEta(current_distance),
      remaining_stops   |-> CurRemainingStops(Size(all_coordinates), Cardinality(vis)),
      remaining_parcels |-> Size(all_coordinates) - Cardinality(vis) ]

(* lines 86-93: the matrix request, then the reset of the instance state *)
CurOptimizeRouteBegin ==
    /\ impl = "current"
    /\ opt_pc \in {"idle", "done"}
    /\ calls < MaxCalls
    /\ calls' = calls + 1
    /\ \E ok \in BOOLEAN :
        IF ok /\ ValidateCoordinates(all_coordinates)
        THEN /\ distance_matrix' = GetDistanceMatrix(all_coordinates)
             /\ route_info' = <<>>
             /\ current_location' = 0
             /\ visited' = ResetVisited(visited)
             /\ opt_pc' = "loop"
        ELSE /\ opt_pc' = "raised"
             /\ UNCHANGED <<distance_matrix, route_info, current_location, visited>>
    /\ UNCHANGED <<impl, all_coordinates, customer_data, returned, scan, failures, queried>>
    /\ UNCHANGED <<matVars, valVars, zoneVars>>

(* lines 95-124: one iteration of the while loop *)
CurLoopBody ==
    /\ impl = "current"
    /\ opt_pc = "loop"
    /\ LoopContinues(Cardinality(visited), Size(all_coordinates))
    /\ LET unv == DOMAIN all_coordinates \ visited IN
       \E failed \in SUBSET unv, fail_cur \in BOOLEAN, fail_hub \in BOOLEAN :
         LET nf == Cardinality(failed) + BoolToInt(fail_cur) + BoolToInt(fail_hub)
             d  == [idx \in unv |->
                       GetRouteDistance(current_location, idx, idx \in failed)]
             next_idx == CurFindNearestPoint(visited, d)
         IN
         /\ failures + nf <= MaxFailures
         /\ failures' = failures + nf
         /\ queried' = queried + QueriesOfIteration(Cardinality(unv))
         /\ scan' = d
         /\ IF next_idx = -1
            THEN /\ opt_pc' = "raised"
                 /\ UNCHANGED <<visited, route_info, current_location>>
            ELSE LET vis == MarkVisited(visited, next_idx)
                     current_distance ==
                         GetRouteDistance(current_location, next_idx, fail_cur)
                     hub_distance == GetRouteDistance(0, next_idx, fail_hub)
                 IN /\ visited' = vis
                    /\ route_info' = Append(route_info,
                           CurStopInfo(vis, next_idx, current_distance, hub_distance))
                    /\ current_location' = next_idx
                    /\ opt_pc' = "loop"
    /\ UNCHANGED <<impl, all_coordinates, customer_data, distance_matrix,
                   calls, returned>>
    /\ UNCHANGED <<matVars, valVars, zoneVars>>

(* lines 126-127 *)
CurOptimizeRouteReturn ==
    /\ impl = "current"
    /\ opt_pc = "loop"
    /\ ~LoopContinues(Cardinality(visited), Size(all_coordinates))
    /\ opt_pc' = "done"
    /\ returned' = Append(returned, route_info)
    /\ UNCHANGED <<impl, all_coordinates, customer_data, distance_matrix,
                   visited, current_location, route_info, calls, scan, failures, queried>>
    /\ UNCHANGED <<matVars, valVars, zoneVars>>

-----------------------------------------------------------------------------
(* RouteOptimizer, earlier revision                                         *)
(* (delivery-route-optimizer/src/models/route_optimizer.py)                 *)

OldFindNearestPoint(vis, d) ==
    ScanFrom(1, Size(all_coordinates) - 1, vis, d, Infinity, -1)

(* 'remaining_stops': self.total_stops - (len(self.visited) - 1) *)
OldRemainingStops(total_stops, n_visited) == total_stops - (n_visited - 1)

(* customer_data['Number_of_parcels'].sum() *)
RECURSIVE SumParcels(_, _)
SumParcels(data, k) ==
    IF k = 0 THEN 0 ELSE data[k].Number_of_parcels + SumParcels(data, k - 1)

(* the local running counter remaining_parcels before the next iteration *)
OldRemainingParcels ==
    IF route_info = <<>> THEN SumParcels(customer_data, Len(customer_data))
    ELSE route_info[Len(route_info)].remaining_parcels

(* eta = (current_distance / 1000.0) * (60 / 30) + 6, thousandths of a minute *)
OldEta(current_distance) == current_distance * 2 + 6000

OldStopInfo(vis, next_idx) ==
    [ stop_number       |-> Cardinality(vis) - 1,
      stop              |-> next_idx,
      coordinates       |-> all_coordinates[next_idx],
      last_location     |-> all_coordinates[current_location],
      distance          |-> distance_matrix[current_location][next_idx],
      distance_from_hub |-> distance_matrix[0][next_idx],
      eta               |-> OldEta(distance_matrix[current_location][next_idx]),
      remaining_stops   |-> OldRemainingStops(Size(all_coordinates) - 1, Cardinality(vis)),
      remaining_parcels |->
          OldRemainingParcels - customer_data[next_idx].Number_of_parcels ]

(* lines 40-44: the matrix request; visited and current_location are kept *)
OldOptimizeRouteBegin ==
    /\ impl = "earlier"
    /\ opt_pc \in {"idle", "done"}
    /\ calls < MaxCalls
    /\ calls' = calls + 1
    /\ \E ok \in BOOLEAN :
        IF ok /\ ValidateCoordinates(all_coordinates)
        THEN /\ distance_matrix' = GetDistanceMatrix(all_coordinates)
             /\ route_info' = <<>>
             /\ opt_pc' = "loop"
        ELSE /\ opt_pc' = "raised"
             /\ UNCHANGED <<distance_matrix, route_info>>
    /\ UNCHANGED <<impl, all_coordinates, customer_data, visited,
                   current_location, returned, scan, failures, queried>>
    /\ UNCHANGED <<matVars, valVars, zoneVars>>

(* lines 46-72: one iteration of the while loop *)
OldLoopBody ==
    /\ impl = "earlier"
    /\ opt_pc = "loop"
    /\ LoopContinues(Cardinality(visited), Size(all_coordinates))
    /\ LET unv == DOMAIN all_coordinates \ visited
           d   == [idx \in unv |-> distance_matrix[current_location][idx]]
           next_idx == OldFindNearestPoint(visited, d)
       IN
       /\ scan' = d
       /\ IF Size(distance_matrix) = 0 \/ next_idx = -1
          THEN /\ opt_pc' = "raised"
               /\ UNCHANGED <<visited, route_info, current_location>>
          ELSE LET vis == MarkVisited(visited, next_idx)
               IN /\ visited' = vis
                  /\ route_info' = Append(route_info, OldStopInfo(vis, next_idx))
                  /\ current_location' = next_idx
                  /\ opt_pc' = "loop"
    /\ UNCHANGED <<impl, all_coordinates, customer_data, distance_matrix,
                   calls, returned, failures, queried>>
    /\ UNCHANGED <<matVars, valVars, zoneVars>>

(* line 74 *)
OldOptimizeRouteReturn ==
    /\ impl = "earlier"
    /\ opt_pc = "loop"
    /\ ~LoopContinues(Cardinality(visited), Size(all_coordinates))
    /\ opt_pc' = "done"
    /\ returned' = Append(returned, route_info)
    /\ UNCHANGED <<impl, all_coordinates, customer_data, distance_matrix,
                   visited, current_location, route_info, calls, scan, failures, queried>>
    /\ UNCHANGED <<matVars, valVars, zoneVars>>

-----------------------------------------------------------------------------
(* Specification of the two optimizers on small stop sets *)

StopLists ==
    UNION { { [k \in 0..n |-> IF k = 0 THEN HubLoc ELSE f[k]] :
                f \in [1..n -> 0..(NumLoc - 1)] } : n \in 0..MaxStops }

(* Customer tables: row k of the loaded dataset carries a parcel count and, *)
(* in the current revision, a zone; the tables differ by a rotation of the *)
(* values.  The current revision's get_customer_info passes on             *)
(* tracking_num, zone and customer_address only, so its optimizer reads    *)
(* no parcel count.                                                        *)
CustomerTables(which, n) ==
    IF which = "current"
    THEN { [k \in 1..n |-> [zone |-> 1 + ((k + s) % NumZones),
                            Number_of_parcels |-> 1 + ((k + s) % MaxParcels)]] :
             s \in 0..(NumZones - 1) }
    ELSE { [k \in 1..n |-> [Number_of_parcels |-> 1 + ((k + s) % MaxParcels)]] :
             s \in 0..(MaxParcels - 1) }

InitOpt ==
    /\ MatIdle /\ ValIdle /\ MetIdle /\ EucIdle /\ ZoneIdle
    /\ impl \in {"current", "earlier"}
    /\ all_coordinates \in StopLists
    /\ customer_data \in CustomerTables(impl, Size(all_coordinates) - 1)
    /\ distance_matrix = NoMatrix
    /\ visited = {0}
    /\ current_location = 0
    /\ route_info = <<>>
    /\ opt_pc = "idle"
    /\ calls = 0
    /\ returned = <<>>
    /\ scan = <<>>
    /\ failures = 0
    /\ queried = 0

NextOpt ==
    \/ CurOptimizeRouteBegin
    \/ CurLoopBody
    \/ CurOptimizeRouteReturn
    \/ OldOptimizeRouteBegin
    \/ OldLoopBody
    \/ OldOptimizeRouteReturn

SpecOpt == InitOpt /\ [][NextOpt]_vars

NStops == Size(all_coordinates) - 1

-----------------------------------------------------------------------------
(* C1: on a freshly constructed RouteOptimizer and N >= 1 stops,            *)
(* optimize_route returns exactly N steps whose stops are a permutation of  *)
(* 1..N (the hub index 0 never chosen), and visited grows by exactly one    *)
(* element per loop iteration from {hub} to size N + 1, never shrinking.    *)
C1_ReturnsPermutation ==
    (opt_pc = "done" /\ calls = 1 /\ NStops >= 1) =>
        /\ Len(route_info) = NStops
        /\ { route_info[k].stop : k \in 1..Len(route_info) } = 1..NStops
        /\ Cardinality(visited) = NStops + 1

C1_VisitedGrowsByOne ==
    calls' = 1 =>
        /\ visited \subseteq visited'
        /\ Cardinality(visited') =
               Cardinality(visited) + (Len(route_info') - Len(route_info))
        /\ Len(route_info') - Len(route_info) \in {0, 1}
        /\ Cardinality(visited') = Len(route_info') + 1

C1_PermutationAndGrowth ==
    [](C1_ReturnsPermutation) /\ [][C1_VisitedGrowsByOne]_vars

C1_Witness ==
    /\ opt_pc = "done" /\ calls = 1 /\ NStops = MaxStops
    /\ Len(route_info) = MaxStops

(* C2: find_nearest_point returns, among all unvisited indices, one whose   *)
(* looked-up distance from the current location is minimal, and the lowest  *)
(* index among those that share the minimal distance.                       *)
C2_NearestLowestIndex ==
    (opt_pc \in {"loop", "done"} /\ route_info # <<>>) =>
        LET chosen == route_info[Len(route_info)].stop IN
        /\ DOMAIN scan = (DOMAIN all_coordinates \ visited) \cup {chosen}
        /\ \A idx \in DOMAIN scan :
              /\ scan[chosen] <= scan[idx]
              /\ scan[idx] = scan[chosen] => chosen <= idx

C2_Witness ==
    /\ route_info # <<>>
    /\ LET chosen == route_info[Len(route_info)].stop IN
       \E idx \in DOMAIN scan : idx > chosen /\ scan[idx] = scan[chosen]

(* C3: current revision: a second optimize_route call on the same instance, *)
(* the backend answering the same distances, returns the same ordered       *)
(* sequence of stops as the first call.                                     *)
C3_SecondCallSameRoute ==
    (impl = "current" /\ Len(returned) = 2 /\ failures = 0) =>
        StopsOf(returned[2]) = StopsOf(returned[1])

C3_Witness ==
    /\ impl = "current" /\ Len(returned) = 2 /\ failures = 0
    /\ Len(returned[2]) = MaxStops

(* C8: the k-th step emitted by optimize_route carries                      *)
(* remaining_stops = N - k, so the sequence is N-1, N-2, ..., 0.            *)
C8_RemainingStops ==
    \A k \in 1..Len(route_info) : route_info[k].remaining_stops = NStops - k

C8_Witness ==
    /\ opt_pc = "done" /\ Len(route_info) = MaxStops
    /\ route_info[1].remaining_stops = MaxStops - 1
    /\ route_info[MaxStops].remaining_stops = 0

-----------------------------------------------------------------------------
(* RouteValidator (src/utils/route_validator.py) *)

AVERAGE_SPEED == 30
SERVICE_TIME  == 4

Methods == {"Nearest Neighbor", "Random", "Euclidean", "OR-Tools"}

(* 'N/A' / a computed percentage: the empty set or a singleton *)
NotAvailable == {}

(* (distance / 1000) * (60 / self.AVERAGE_SPEED) minutes, kept in seconds *)
TravelSeconds(distance) == (distance * 60 * 60) \div (1000 * AVERAGE_SPEED)

(* unvisited_stops.remove(x): drops the first element equal to x *)
RECURSIVE RemoveFirst(_, _)
RemoveFirst(seq, x) ==
    IF seq = <<>> THEN <<>>
    ELSE IF Head(seq) = x THEN Tail(seq)
         ELSE <<Head(seq)>> \o RemoveFirst(Tail(seq), x)

(* sorted(distances, key=distance)[0]: the sort is stable, so the first    *)
(* entry is the earliest candidate of minimal distance                     *)
FirstNearest(candidates, from) ==
    LET d(i) == RouteDetailsDistance(from, candidates[i].coordinates)
    IN candidates[CHOOSE i \in 1..Len(candidates) :
           \A j \in 1..Len(candidates) :
               d(i) <= d(j) /\ (d(j) = d(i) => i <= j)]

(* get_nearest_neighbor_route_detailed ends after its while loop without a *)
(* return statement: the caller receives None, whatever 'route' holds      *)
NearestNeighborResult(route) == None

(* line 113: total_time += travel_time + self.SERVICE_TIME *)
StopTime(distance) == TravelSeconds(distance) + SERVICE_TIME * 60

(* lines 119-122: the return leg adds its travel time only *)
ReturnTimeWithService(return_distance) ==
    TravelSeconds(return_distance) + SERVICE_TIME * 60

ReturnTime(return_distance) == TravelSeconds(return_distance)

(* calculate_metrics: <<total_distance (m), total_time (s)>>;              *)
(* 'for stop in route' raises TypeError when route is None                 *)
RECURSIVE MetricsFrom(_, _, _, _, _)
MetricsFrom(route, k, current, total_distance, total_time) ==
    IF k > Len(route)
    THEN LET return_distance == RouteDetailsDistance(current, HubLoc)
         IN <<total_distance + return_distance,
              total_time + ReturnTime(return_distance)>>
    ELSE LET distance == RouteDetailsDistance(current, route[k].coordinates)
         IN MetricsFrom(route, k + 1, route[k].coordinates,
                total_distance + distance,
                total_time + StopTime(distance))

CalculateMetrics(route) == MetricsFrom(route, 1, HubLoc, 0, 0)

(* calculate_extended_metrics *)
CalculateExtendedMetrics(route, total_distance, total_time) ==
    [ num_stops         |-> Len(route),
      avg_time_per_stop |-> IF Len(route) > 0 THEN total_time \div Len(route) ELSE 0,
      redundant_paths   |->
          Cardinality({ k \in 1..Len(route) :
              \E j \in 1..(k - 1) : route[j].coordinates = route[k].coordinates }) ]

(* lines 164-175: one row per entry of metrics_by_method; the key          *)
(* 'diff_from_optimal' is never set, so the last column is 'N/A'           *)
ResultRows(route) ==
    LET m  == CalculateMetrics(route)
        ex == CalculateExtendedMetrics(route, m[1], m[2])
    IN << [ method            |-> "Nearest Neighbor",
            distance          |-> m[1],
            time              |-> m[2],
            num_stops         |-> ex.num_stops,
            avg_time_per_stop |-> ex.avg_time_per_stop,
            redundant_paths   |-> ex.redundant_paths,
            pct_from_optimal  |-> NotAvailable ] >>

(* lines 150-156, 198-208 *)
CompareMethodsBegin ==
    /\ val_pc = "idle"
    /\ unvisited_stops' = stops
    /\ nn_built' = <<>>
    /\ nn_location' = HubLoc
    /\ val_pc' = "nn"
    /\ UNCHANGED <<stops, nn_route, results, val_failed>>
    /\ UNCHANGED <<metVars, eucVars, optVars, matVars, zoneVars>>

(* lines 210-256: one iteration; a raising query ends compare_methods in   *)
(* its except clause with an empty list                                    *)
NearestNeighborStep ==
    /\ val_pc = "nn"
    /\ unvisited_stops # <<>>
    /\ \E ok \in BOOLEAN :
        IF ok
        THEN LET nearest == FirstNearest(unvisited_stops, nn_location)
             IN /\ nn_built' = Append(nn_built, nearest)
                /\ nn_location' = nearest.coordinates
                /\ unvisited_stops' = RemoveFirst(unvisited_stops, nearest)
                /\ UNCHANGED <<results, val_pc, val_failed>>
        ELSE /\ results' = <<>>
             /\ val_pc' = "returned"
             /\ val_failed' = TRUE
             /\ UNCHANGED <<nn_built, nn_location, unvisited_stops>>
    /\ UNCHANGED <<stops, nn_route>>
    /\ UNCHANGED <<metVars, eucVars, optVars, matVars, zoneVars>>

(* end of the while loop of get_nearest_neighbor_route_detailed *)
NearestNeighborReturn ==
    /\ val_pc = "nn"
    /\ unvisited_stops = <<>>
    /\ nn_route' = NearestNeighborResult(nn_built)
    /\ val_pc' = "score"
    /\ UNCHANGED <<stops, unvisited_stops, nn_built, nn_location, results, val_failed>>
    /\ UNCHANGED <<metVars, eucVars, optVars, matVars, zoneVars>>

(* lines 157-194 *)
CompareMethodsScore ==
    /\ val_pc = "score"
    /\ \E ok \in BOOLEAN :
        IF nn_route = None
        THEN /\ results' = <<>>
             /\ UNCHANGED val_failed
        ELSE IF ok
             THEN /\ results' = ResultRows(nn_route)
                  /\ UNCHANGED val_failed
             ELSE /\ results' = <<>>
                  /\ val_failed' = TRUE
    /\ val_pc' = "returned"
    /\ UNCHANGED <<stops, unvisited_stops, nn_built, nn_location, nn_route>>
    /\ UNCHANGED <<metVars, eucVars, optVars, matVars, zoneVars>>

ValidatorStops ==
    UNION { { [k \in 1..n |-> [stop |-> k, coordinates |-> f[k]]] :
                f \in [1..n -> 0..(NumLoc - 1)] } : n \in 0..MaxStops }

InitVal ==
    /\ OptIdle /\ MatIdle /\ MetIdle /\ EucIdle /\ ZoneIdle
    /\ stops \in ValidatorStops
    /\ unvisited_stops = <<>>
    /\ nn_built = <<>>
    /\ nn_location = HubLoc
    /\ nn_route = None
    /\ results = None
    /\ val_pc = "idle"
    /\ val_failed = FALSE

NextVal ==
    \/ CompareMethodsBegin
    \/ NearestNeighborStep
    \/ NearestNeighborReturn
    \/ CompareMethodsScore

SpecVal == InitVal /\ [][NextVal]_vars

-----------------------------------------------------------------------------
(* C9: compare_methods returns one result row per competing method         *)
(* (nearest neighbour, random, haversine greedy, exact solver); for a      *)
(* non-empty stop set and a backend that answers every query the list is   *)
(* not empty.                                                              *)
C9_OneRowPerMethod ==
    (val_pc = "returned" /\ stops # <<>> /\ ~val_failed) =>
        /\ results # <<>>
        /\ { results[k].method : k \in 1..Len(results) } = Methods
        /\ Len(results) = Cardinality(Methods)

(* C10: the exact-solver row has pct_from_optimal 0 or absent, every other *)
(* method's row has pct_from_optimal computed relative to the exact-solver *)
(* row's total distance, and no row has a negative distance or time.       *)
PctFrom(distance, optimal) == ((distance - optimal) * 100) \div optimal

-----------------------------------------------------------------------------
(* process_dataset (src/main.py): zone grouping and per-zone clock.        *)
(* A zone list holds references to the stop dicts of route_sequence, so it *)
(* is a list of positions in route_sequence; zones keeps insertion order.  *)

StartTime == 8 * 60 * 60

(* (stop['distance'] / 1000) * (60 / 30) minutes, kept in seconds *)
ZoneTravelSeconds(distance) == (distance * 60 * 60) \div (1000 * 30)

(* service_time = 4 minutes, kept in seconds *)
ZoneServiceSeconds == 4 * 60

(* strftime('%H:%M') *)
FormatHM(t) == <<(t \div 3600) % 24, (t \div 60) % 60>>

ZoneKeys(zs) == { zs[i].zone : i \in 1..Len(zs) }

(* lines 113-116: create the list on first sight of the zone, then append *)
ZoneAppendOverwriting(zs, zone, ref) ==
    IF zone \notin ZoneKeys(zs)
    THEN Append(zs, [zone |-> zone, stops |-> <<ref>>])
    ELSE [i \in 1..Len(zs) |->
            IF zs[i].zone = zone
            THEN [zs[i] EXCEPT !.stops = <<ref>>]
            ELSE zs[i]]

ZoneAppend(zs, zone, ref) ==
    IF zone \notin ZoneKeys(zs)
    THEN Append(zs, [zone |-> zone, stops |-> <<ref>>])
    ELSE [i \in 1..Len(zs) |->
            IF zs[i].zone = zone
            THEN [zs[i] EXCEPT !.stops = Append(@, ref)]
            ELSE zs[i]]

(* line 134: current_time += timedelta(minutes=travel_time + service_time) *)
AdvanceClockFromStart(t, distance) ==
    StartTime + ZoneTravelSeconds(distance) + ZoneServiceSeconds

AdvanceClock(t, distance) == t + ZoneTravelSeconds(distance) + ZoneServiceSeconds

(* lines 103-104: the validator is built over the route sequence and      *)
(* compare_methods is entered (route_validator.py lines 150-156, 198-208)  *)
ProcessDatasetValidate ==
    /\ zone_pc = "idle"
    /\ val_pc = "idle"
    /\ stops' = route_sequence
    /\ unvisited_stops' = route_sequence
    /\ nn_built' = <<>>
    /\ nn_location' = HubLoc
    /\ val_pc' = "nn"
    /\ zone_pc' = "validating"
    /\ UNCHANGED <<nn_route, results, val_failed>>
    /\ UNCHANGED <<route_sequence, zones, grp_i, zone_i, stop_i, current_time>>
    /\ UNCHANGED <<validation_results, main_status>>
    /\ UNCHANGED <<metVars, eucVars, optVars, matVars>>

(* lines 104-108: compare_methods has returned; an empty result is logged  *)
(* as a warning and replaced by an empty list                              *)
ProcessDatasetValidated ==
    /\ zone_pc = "validating"
    /\ val_pc = "returned"
    /\ validation_results' = IF results = <<>> THEN <<>> ELSE results
    /\ zone_pc' = "validated"
    /\ UNCHANGED <<route_sequence, zones, grp_i, zone_i, stop_i, current_time>>
    /\ UNCHANGED main_status
    /\ UNCHANGED <<optVars, matVars, valVars>>

(* lines 110-111 *)
ProcessDatasetGroupBegin ==
    /\ zone_pc = "validated"
    /\ zones' = <<>>
    /\ grp_i' = 0
    /\ zone_pc' = "group"
    /\ UNCHANGED <<route_sequence, zone_i, stop_i, current_time>>
    /\ UNCHANGED <<validation_results, main_status>>
    /\ UNCHANGED <<optVars, matVars, valVars>>

(* lines 112-116: one iteration of 'for stop in route_sequence' *)
ProcessDatasetGroupStep ==
    /\ zone_pc = "group"
    /\ grp_i < Len(route_sequence)
    /\ grp_i' = grp_i + 1
    /\ zones' = ZoneAppend(zones, route_sequence[grp_i + 1].zone, grp_i + 1)
    /\ UNCHANGED <<route_sequence, zone_i, stop_i, current_time, zone_pc>>
    /\ UNCHANGED <<validation_results, main_status>>
    /\ UNCHANGED <<optVars, matVars, valVars>>

(* line 119 and the entry of 'for zone, stops in zones.items()' *)
ProcessDatasetZonesBegin ==
    /\ zone_pc = "group"
    /\ grp_i >= Len(route_sequence)
    /\ zone_i' = 1
    /\ stop_i' = 0
    /\ current_time' = StartTime
    /\ zone_pc' = "zones"
    /\ UNCHANGED <<route_sequence, zones, grp_i>>
    /\ UNCHANGED <<validation_results, main_status>>
    /\ UNCHANGED <<optVars, matVars, valVars>>

(* line 127: stop['stop_number'] = i *)
StopNumberOfRoute(i, stop) == stop.stop_number

StopNumber(i, stop) == i

(* line 138: 'if i == len(stops)' *)
IsAnyStop(i, n) == i <= n

IsLastStop(i, n) == i = n

(* lines 123-151: one iteration of 'for i, stop in enumerate(stops, 1)';   *)
(* the first iteration of a zone runs lines 123-124 before it              *)
ProcessDatasetStopStep ==
    /\ zone_pc = "zones"
    /\ zone_i <= Len(zones)
    /\ LET zstops == zones[zone_i].stops
           i      == stop_i + 1
           ref    == zstops[i]
           stop   == route_sequence[ref]
           total_zone_distance ==
               (IF i = 1 THEN 0 ELSE route_sequence[zstops[i - 1]].total_distance)
               + stop.distance
           t0     == IF i = 1 THEN StartTime ELSE current_time
           t1     == AdvanceClock(t0, stop.distance)
           return_distance == RouteDetailsDistance(stop.coordinates, HubLoc)
           t2     == t1 + ZoneTravelSeconds(return_distance)
           base   == [ zone |-> stop.zone, stop |-> stop.stop,
                       coordinates |-> stop.coordinates,
                       distance |-> stop.distance,
                       stop_number |-> StopNumber(i, stop),
                       total_distance |-> total_zone_distance,
                       arrival |-> t1,
                       arrival_time |-> FormatHM(t1),
                       remaining_stops |-> Len(zstops) - i ]
           last   == [ zone |-> stop.zone, stop |-> stop.stop,
                       coordinates |-> stop.coordinates,
                       distance |-> stop.distance,
                       stop_number |-> StopNumber(i, stop),
                       total_distance |-> total_zone_distance,
                       arrival |-> t1,
                       arrival_time |-> FormatHM(t1),
                       return_distance |-> return_distance,
                       return_time |-> FormatHM(t2),
                       remaining_stops |-> Len(zstops) - i ]
       IN
       IF ~IsLastStop(i, Len(zstops))
       THEN /\ route_sequence' = [route_sequence EXCEPT ![ref] = base]
            /\ current_time' = t1
            /\ stop_i' = IF i < Len(zstops) THEN i ELSE 0
            /\ zone_i' = IF i < Len(zstops) THEN zone_i ELSE zone_i + 1
            /\ UNCHANGED zone_pc
       ELSE \E ok \in BOOLEAN :
            IF ok
            THEN /\ route_sequence' = [route_sequence EXCEPT ![ref] = last]
                 /\ current_time' = t2
                 /\ stop_i' = IF i < Len(zstops) THEN i ELSE 0
                 /\ zone_i' = IF i < Len(zstops) THEN zone_i ELSE zone_i + 1
                 /\ UNCHANGED zone_pc
            ELSE /\ zone_pc' = "raised"
                 /\ route_sequence' = [route_sequence EXCEPT ![ref] =
                        [ zone |-> stop.zone, stop |-> stop.stop,
                          coordinates |-> stop.coordinates,
                          distance |-> stop.distance,
                          stop_number |-> StopNumber(i, stop),
                          total_distance |-> total_zone_distance,
                          arrival |-> t1,
                          arrival_time |-> FormatHM(t1),
                          remaining_stops |-> stop.remaining_stops ]]
                 /\ current_time' = t1
                 /\ stop_i' = i
                 /\ UNCHANGED zone_i
    /\ UNCHANGED <<zones, grp_i>>
    /\ UNCHANGED <<validation_results, main_status>>
    /\ UNCHANGED <<optVars, matVars, valVars>>

(* line 160 *)
ProcessDatasetReturn ==
    /\ zone_pc = "zones"
    /\ zone_i > Len(zones)
    /\ zone_pc' = "returned"
    /\ UNCHANGED <<route_sequence, zones, grp_i, zone_i, stop_i, current_time>>
    /\ UNCHANGED <<validation_results, main_status>>
    /\ UNCHANGED <<optVars, matVars, valVars>>

(* A route as optimize_route returns it when every query is answered:      *)
(* step k has stop_number k and the road distance from the previous point  *)
RouteOver(locs, zs) ==
    [k \in 1..Len(locs) |->
        [ stop            |-> k,
          stop_number     |-> k,
          zone            |-> zs[k],
          coordinates     |-> locs[k],
          distance        |-> RouteDetailsDistance(
                                  IF k = 1 THEN HubLoc ELSE locs[k - 1], locs[k]),
          remaining_stops |-> Len(locs) - k ]]

RouteSequences ==
    UNION { { RouteOver(locs, zs) :
                locs \in [1..n -> 0..(NumLoc - 1)], zs \in [1..n -> 1..NumZones] } :
            n \in 0..MaxStops }

InitZone ==
    /\ OptIdle /\ MatIdle /\ ValIdle /\ MetIdle /\ EucIdle
    /\ route_sequence \in RouteSequences
    /\ zones = <<>>
    /\ grp_i = 0
    /\ zone_i = 0
    /\ stop_i = 0
    /\ current_time = 0
    /\ validation_results = None
    /\ main_status = "none"
    /\ zone_pc = "idle"

(* main.py line 279: 'if not zones or not validation_results' *)
TreatsAsFailed(zs, vr) == Len(zs) = 0 \/ Len(vr) = 0

(* main.py lines 277-290: main receives process_dataset's pair and either  *)
(* logs the dataset as an error and skips it or goes on to write its map;  *)
(* the except clause of process_dataset (lines 162-164) returns None, [],  *)
(* and None is as false as the empty dict, written <<>> here               *)
MainAfterProcessDataset ==
    /\ zone_pc \in {"returned", "raised"}
    /\ main_status = "none"
    /\ LET zs == IF zone_pc = "raised" THEN <<>> ELSE zones
           vr == IF zone_pc = "raised" THEN <<>> ELSE validation_results
       IN main_status' = IF TreatsAsFailed(zs, vr) THEN "error" ELSE "mapped"
    /\ UNCHANGED <<route_sequence, zones, grp_i, zone_i, stop_i, current_time>>
    /\ UNCHANGED <<validation_results, zone_pc>>
    /\ UNCHANGED <<optVars, matVars, valVars>>

NextZone ==
    \/ ProcessDatasetValidate
    \/ NearestNeighborStep
    \/ NearestNeighborReturn
    \/ CompareMethodsScore
    \/ ProcessDatasetValidated
    \/ ProcessDatasetGroupBegin
    \/ ProcessDatasetGroupStep
    \/ ProcessDatasetZonesBegin
    \/ ProcessDatasetStopStep
    \/ ProcessDatasetReturn
    \/ MainAfterProcessDataset

SpecZone == InitZone /\ [][NextZone]_vars

-----------------------------------------------------------------------------
(* C4: the zone grouping loses and duplicates nothing: every stop of the   *)
(* route sequence appears in exactly one zone list, the list of its own    *)
(* zone value.                                                             *)
Places(ref) ==
    { p \in (1..Len(zones)) \X (1..Len(route_sequence)) :
        p[2] <= Len(zones[p[1]].stops) /\ zones[p[1]].stops[p[2]] = ref }

C4_ZonePartition ==
    zone_pc \in {"zones", "returned"} =>
        /\ \A ref \in 1..Len(route_sequence) :
              /\ Cardinality(Places(ref)) = 1
              /\ \A p \in Places(ref) : zones[p[1]].zone = route_sequence[ref].zone
        /\ \A i \in 1..Len(zones) : \A k \in 1..Len(zones[i].stops) :
              zones[i].stops[k] \in 1..Len(route_sequence)
        /\ \A i \in 1..Len(zones) : \A j \in 1..Len(zones) :
              zones[i].zone = zones[j].zone => i = j

C4_Witness ==
    /\ zone_pc = "returned"
    /\ Len(route_sequence) = MaxStops
    /\ Len(zones) = 2
    /\ \E i \in 1..Len(zones) : Len(zones[i].stops) >= 2

(* C5: within each zone the arrival clock strictly increases from every    *)
(* stop to the next stop of that zone, given positive travel distance and  *)
(* the positive service time.                                              *)
Arrived(ref) == "arrival" \in DOMAIN route_sequence[ref]

C5_ZoneClockIncreases ==
    \A i \in 1..Len(zones) : \A k \in 1..(Len(zones[i].stops) - 1) :
        LET a == zones[i].stops[k]
            b == zones[i].stops[k + 1]
        IN (Arrived(a) /\ Arrived(b) /\ route_sequence[b].distance > 0) =>
               route_sequence[a].arrival < route_sequence[b].arrival

C5_Witness ==
    /\ zone_pc = "returned"
    /\ \E i \in 1..Len(zones) :
          /\ Len(zones[i].stops) >= 2
          /\ LET a == zones[i].stops[1]
                 b == zones[i].stops[2]
             IN /\ route_sequence[b].distance > 0
                /\ route_sequence[a].distance = route_sequence[b].distance
                /\ route_sequence[a].arrival < route_sequence[b].arrival

-----------------------------------------------------------------------------
(* C11: a failure on the validation path is not fatal: when a step of      *)
(* compare_methods raises, the error stays inside compare_methods, the     *)
(* result list is empty (or its comparison values are 'N/A'),              *)
(* process_dataset still builds and returns the zone-partitioned route,    *)
(* and main does not treat that dataset as failed.                         *)
ValidationFailed == val_pc = "returned" /\ results = <<>>

C11_ValidationFailureNonFatal ==
    ValidationFailed =>
        /\ zone_pc # "validating" => validation_results = <<>>
        /\ zone_pc = "returned" =>
              /\ \A ref \in 1..Len(route_sequence) : Cardinality(Places(ref)) = 1
              /\ route_sequence # <<>> => zones # <<>>
        /\ (zone_pc = "returned" /\ zones # <<>> /\ main_status # "none") =>
              main_status = "mapped"

-----------------------------------------------------------------------------
(* C12: get_distance_matrix fails whenever at least one input point lies   *)
(* outside the box 124.5 <= lon <= 126.5, 6.0 <= lat <= 8.5, and then      *)
(* sends no matrix request; when every point is inside the box, a failure  *)
(* is never caused by the box check: a request was sent before it.         *)
OutsideBox ==
    { k \in DOMAIN coordinates :
        \/ Lon(coordinates[k]) < 12450 \/ Lon(coordinates[k]) > 12650
        \/ Lat(coordinates[k]) < 600   \/ Lat(coordinates[k]) > 850 }

C12_BoundingBoxRejects ==
    /\ (mat_pc # "idle" /\ OutsideBox # {}) =>
           mat_pc = "raised" /\ requests = <<>>
    /\ (mat_pc = "raised" /\ OutsideBox = {}) => requests # <<>>

C12_Witness ==
    /\ mat_pc = "raised" /\ requests = <<>>
    /\ Size(coordinates) > max_batch
    /\ Cardinality(OutsideBox) = 1
    /\ \E k \in OutsideBox : Lat(coordinates[k]) = 599

-----------------------------------------------------------------------------
(* The matrix cell and the direct query's answer for the leg that ends at  *)
(* step k of the route being built                                         *)
PrevIdx(k) == IF k = 1 THEN 0 ELSE route_info[k - 1].stop

CellOfStep(k) == distance_matrix[PrevIdx(k)][route_info[k].stop]

QueryOfStep(k) ==
    RouteDetailsDistance(all_coordinates[PrevIdx(k)],
                         all_coordinates[route_info[k].stop])

-----------------------------------------------------------------------------
(* C14: every cell of the matrix returned by get_distance_matrix is the    *)
(* backend's road distance in meters between the two points (not a travel  *)
(* duration), and the diagonal is zero.  Stated for a list answered by a   *)
(* single request, where every cell is queried.                            *)
C14_CellsAreRoadMeters ==
    (mat_pc = "returned" /\ Size(coordinates) <= max_batch) =>
        \A i \in DOMAIN coordinates :
            /\ result[i][i] = 0
            /\ \A j \in DOMAIN coordinates :
                   result[i][j] = RoadMeters(coordinates[i], coordinates[j])

-----------------------------------------------------------------------------
(* C15: the eta of every emitted step is                                   *)
(* (d_km / AVG_SPEED_KMH) * 60 + IDLE_TIME_PER_HOUSE minutes, where d_km   *)
(* is the step's 'distance' (meters) divided by 1000; in thousandths of a  *)
(* minute that is distance * 60 / AVG_SPEED_KMH + 1000 * IDLE.             *)
C15_EtaFromKilometers ==
    \A k \in 1..Len(route_info) :
        route_info[k].eta =
            (route_info[k].distance * 60) \div AVG_SPEED_KMH
                + IDLE_TIME_PER_HOUSE * 1000

-----------------------------------------------------------------------------
(* C16: on an empty stop set optimize_route fails with the 'no candidate'  *)
(* error: the call never finishes by returning a route.                    *)
C16_EmptyStopSetFails ==
    NStops = 0 => (opt_pc # "done" /\ returned = <<>>)

-----------------------------------------------------------------------------
(* C17: zone post-processing keeps the stops of every zone list in the     *)
(* relative order of the optimizer's route, renumbers stop_number 1..m     *)
(* inside each zone, and restarts the cumulative distance per zone: the    *)
(* total_distance of the i-th stop of a zone is the sum of the 'distance'  *)
(* of the first i stops of that zone.                                      *)
RECURSIVE ZonePrefixDistance(_, _)
ZonePrefixDistance(zstops, i) ==
    IF i = 0 THEN 0
    ELSE ZonePrefixDistance(zstops, i - 1) + route_sequence[zstops[i]].distance

C17_ZoneOrderNumbersTotals ==
    zone_pc = "returned" =>
        \A z \in 1..Len(zones) :
            LET zstops == zones[z].stops IN
            \A i \in 1..Len(zstops) :
                /\ \A j \in 1..(i - 1) : zstops[j] < zstops[i]
                /\ route_sequence[zstops[i]].stop_number = i
                /\ route_sequence[zstops[i]].total_distance =
                       ZonePrefixDistance(zstops, i)

C17_Witness ==
    /\ zone_pc = "returned"
    /\ Len(zones) = 2
    /\ zones[1].stops = <<1, 3>>
    /\ zones[2].stops = <<2>>
    /\ route_sequence[3].stop_number = 2
    /\ route_sequence[2].stop_number = 1
    /\ route_sequence[1].distance > 0 /\ route_sequence[3].distance > 0
    /\ route_sequence[3].total_distance =
           route_sequence[1].distance + route_sequence[3].distance

-----------------------------------------------------------------------------
(* C18: after zone processing, in every zone exactly the last stop carries *)
(* return_distance and return_time, and the return distance is added to no *)
(* total_distance: the last stop's total is the sum of the zone's outbound *)
(* legs only.                                                              *)
HasReturnLeg(ref) ==
    {"return_distance", "return_time"} \cap DOMAIN route_sequence[ref] # {}

C18_ReturnLegOnLastStopOnly ==
    zone_pc = "returned" =>
        \A z \in 1..Len(zones) :
            LET zstops == zones[z].stops
                m      == Len(zstops)
            IN /\ \A i \in 1..m : HasReturnLeg(zstops[i]) <=> i = m
               /\ {"return_distance", "return_time"}
                      \subseteq DOMAIN route_sequence[zstops[m]]
               /\ route_sequence[zstops[m]].return_distance =
                      RouteDetailsDistance(route_sequence[zstops[m]].coordinates,
                                           HubLoc)
               /\ route_sequence[zstops[m]].total_distance =
                      ZonePrefixDistance(zstops, m)

C18_Witness ==
    /\ zone_pc = "returned"
    /\ \E z \in 1..Len(zones) :
          /\ Len(zones[z].stops) = 2
          /\ ~HasReturnLeg(zones[z].stops[1])
          /\ HasReturnLeg(zones[z].stops[2])
          /\ route_sequence[zones[z].stops[2]].return_distance > 0
          /\ route_sequence[zones[z].stops[2]].total_distance =
                 route_sequence[zones[z].stops[1]].distance
                     + route_sequence[zones[z].stops[2]].distance

-----------------------------------------------------------------------------
(* RouteValidator.calculate_metrics, step by step, on a route of its own   *)

(* lines 102-104 *)
CalculateMetricsBegin ==
    /\ met_pc = "idle"
    /\ met_k' = 0
    /\ met_current' = HubLoc
    /\ met_distance' = 0
    /\ met_time' = 0
    /\ met_pc' = "loop"
    /\ UNCHANGED met_route
    /\ UNCHANGED <<stops, unvisited_stops, nn_built, nn_location, nn_route,
                   results, val_pc, val_failed>>
    /\ UNCHANGED <<eucVars, optVars, matVars, zoneVars>>

(* lines 106-114: one iteration of 'for stop in route'; a raising query    *)
(* leaves calculate_metrics with the exception                             *)
CalculateMetricsStep ==
    /\ met_pc = "loop"
    /\ met_k < Len(met_route)
    /\ \E ok \in BOOLEAN :
        IF ok
        THEN LET stop     == met_route[met_k + 1]
                 distance == RouteDetailsDistance(met_current, stop.coordinates)
             IN /\ met_distance' = met_distance + distance
                /\ met_time' = met_time + StopTime(distance)
                /\ met_current' = stop.coordinates
                /\ met_k' = met_k + 1
                /\ UNCHANGED met_pc
        ELSE /\ met_pc' = "raised"
             /\ UNCHANGED <<met_k, met_current, met_distance, met_time>>
    /\ UNCHANGED met_route
    /\ UNCHANGED <<stops, unvisited_stops, nn_built, nn_location, nn_route,
                   results, val_pc, val_failed>>
    /\ UNCHANGED <<eucVars, optVars, matVars, zoneVars>>

(* lines 116-124: the return leg and the returned pair *)
CalculateMetricsReturn ==
    /\ met_pc = "loop"
    /\ met_k >= Len(met_route)
    /\ \E ok \in BOOLEAN :
        IF ok
        THEN LET return_distance == RouteDetailsDistance(met_current, HubLoc)
             IN /\ met_distance' = met_distance + return_distance
                /\ met_time' = met_time + ReturnTime(return_distance)
                /\ met_pc' = "returned"
        ELSE /\ met_pc' = "raised"
             /\ UNCHANGED <<met_distance, met_time>>
    /\ UNCHANGED <<met_route, met_k, met_current>>
    /\ UNCHANGED <<stops, unvisited_stops, nn_built, nn_location, nn_route,
                   results, val_pc, val_failed>>
    /\ UNCHANGED <<eucVars, optVars, matVars, zoneVars>>

InitMetrics ==
    /\ OptIdle /\ MatIdle /\ ValIdle /\ EucIdle /\ ZoneIdle
    /\ met_route \in ValidatorStops
    /\ met_k = 0
    /\ met_current = HubLoc
    /\ met_distance = 0
    /\ met_time = 0
    /\ met_pc = "idle"

NextMetrics ==
    \/ CalculateMetricsBegin
    \/ CalculateMetricsStep
    \/ CalculateMetricsReturn

SpecMetrics == InitMetrics /\ [][NextMetrics]_vars

(* C19: calculate_metrics over a route s1..sn returns as total_distance    *)
(* the sum of the n legs hub -> s1 -> ... -> sn plus the leg sn -> hub,    *)
(* and as total_time the travel time of those n + 1 legs plus n times      *)
(* SERVICE_TIME; for an empty route only the hub -> hub leg is measured.   *)
LegOf(route, j) ==
    RouteDetailsDistance(
        IF j = 1 THEN HubLoc ELSE route[j - 1].coordinates,
        IF j = Len(route) + 1 THEN HubLoc ELSE route[j].coordinates)

RECURSIVE LegsDistance(_, _)
LegsDistance(route, j) ==
    IF j = 0 THEN 0 ELSE LegsDistance(route, j - 1) + LegOf(route, j)

RECURSIVE LegsTravel(_, _)
LegsTravel(route, j) ==
    IF j = 0 THEN 0
    ELSE LegsTravel(route, j - 1)
             + (LegOf(route, j) * 60 * 60) \div (1000 * AVERAGE_SPEED)

C19_MetricsSumLegs ==
    met_pc = "returned" =>
        LET n == Len(met_route) IN
        /\ met_distance = LegsDistance(met_route, n + 1)
        /\ met_time = LegsTravel(met_route, n + 1) + n * SERVICE_TIME * 60
        /\ n = 0 => /\ met_distance = RouteDetailsDistance(HubLoc, HubLoc)
                    /\ met_time = 0

C19_Witness ==
    /\ met_pc = "returned"
    /\ Len(met_route) = MaxStops
    /\ \A j \in 1..(MaxStops + 1) : LegOf(met_route, j) > 0
    /\ met_time > MaxStops * SERVICE_TIME * 60

-----------------------------------------------------------------------------
(* C20: the vehicle's arrival clock never goes backwards over the          *)
(* delivered sequence: the first stop of each later zone arrives later     *)
(* than the last stop of the zone processed before it.                     *)
C20_ClockForwardAcrossZones ==
    zone_pc = "returned" =>
        \A z \in 1..(Len(zones) - 1) :
            LET last  == zones[z].stops[Len(zones[z].stops)]
                first == zones[z + 1].stops[1]
            IN route_sequence[first].arrival > route_sequence[last].arrival

-----------------------------------------------------------------------------
(* C21: remaining_parcels is a running parcel counter: in the k-th emitted *)
(* step it is the parcel count of all input stops minus the parcel counts  *)
(* of the k stops visited so far, and 0 in the last step, for any positive *)
(* parcel counts.                                                          *)
RECURSIVE ParcelsDelivered(_)
ParcelsDelivered(k) ==
    IF k = 0 THEN 0
    ELSE ParcelsDelivered(k - 1)
             + customer_data[route_info[k].stop].Number_of_parcels

C21_RemainingParcelsCounter ==
    /\ \A k \in 1..Len(route_info) :
          route_info[k].remaining_parcels =
              SumParcels(customer_data, Len(customer_data)) - ParcelsDelivered(k)
    /\ (opt_pc = "done" /\ route_info # <<>>) =>
          route_info[Len(route_info)].remaining_parcels = 0

-----------------------------------------------------------------------------
(* C22: get_distance_matrix sends one request when there are at most       *)
(* max_batch points; otherwise one sub-request per index range             *)
(* [i, min(i + max_batch, n)) for i = 0, max_batch, 2 * max_batch, ...,    *)
(* in ascending order and each once: the ranges are disjoint, none is      *)
(* empty or larger than max_batch, and a returned matrix had every index   *)
(* 0..n-1 covered.                                                         *)
Covered ==
    UNION { requests[k].from..(requests[k].from + requests[k].len - 1) :
              k \in 1..Len(requests) }

C22_BatchRanges ==
    LET n == Size(coordinates) IN
    /\ n <= 45 => Len(requests) <= 1
    /\ \A k \in 1..Len(requests) :
          /\ requests[k].from = (k - 1) * 45
          /\ requests[k].len = Min(45, n - requests[k].from)
          /\ requests[k].len >= 1 /\ requests[k].len <= 45
          /\ \A l \in (k + 1)..Len(requests) :
                requests[k].from + requests[k].len <= requests[l].from
    /\ mat_pc = "returned" => Covered = 0..(n - 1)

C22_Witness ==
    /\ mat_pc = "returned"
    /\ Size(coordinates) = 2 * 45 + 1
    /\ Len(requests) = 3
    /\ requests[3] = [from |-> 90, len |-> 1]

-----------------------------------------------------------------------------
(* The earlier RouteOptimizer on a stop set beyond one matrix batch: the   *)
(* matrix it stores is the one _process_large_matrix assembled             *)

LargeStopLists ==
    { [k \in 0..n |-> IF k = 0 THEN HubLoc ELSE k \div dup] :
        n \in max_batch..MaxLargeStops, dup \in 1..2 }

InitOldLarge ==
    /\ MatIdle /\ ValIdle /\ MetIdle /\ EucIdle /\ ZoneIdle
    /\ impl = "earlier"
    /\ all_coordinates \in LargeStopLists
    /\ customer_data \in CustomerTables(impl, Size(all_coordinates) - 1)
    /\ distance_matrix = NoMatrix
    /\ visited = {0}
    /\ current_location = 0
    /\ route_info = <<>>
    /\ opt_pc = "idle"
    /\ calls = 0
    /\ returned = <<>>
    /\ scan = <<>>
    /\ failures = 0
    /\ queried = 0

NextOldLarge ==
    \/ OldOptimizeRouteBegin
    \/ OldLoopBody
    \/ OldOptimizeRouteReturn

SpecOldLarge == InitOldLarge /\ [][NextOldLarge]_vars

(* C24: in the earlier RouteOptimizer every matrix cell read during        *)
(* optimize_route, by the nearest-point scan and for the emitted step,     *)
(* holds the value the backend returned for that pair of points, also when *)
(* the matrix was assembled by _process_large_matrix: a cross-block cell   *)
(* that was never fetched is never used as a distance.                     *)
C24_CellsReadWereFetched ==
    (impl = "earlier" /\ route_info # <<>>) =>
        /\ \A idx \in DOMAIN scan :
              scan[idx] =
                  DurationSec(route_info[Len(route_info)].last_location,
                              all_coordinates[idx])
        /\ \A k \in 1..Len(route_info) :
              /\ route_info[k].distance =
                     DurationSec(route_info[k].last_location,
                                 route_info[k].coordinates)
              /\ route_info[k].distance_from_hub =
                     DurationSec(HubLoc, route_info[k].coordinates)
              /\ BlockOf(PrevIdx(k)) = BlockOf(route_info[k].stop)

-----------------------------------------------------------------------------
(* C23: earlier revision: a second optimize_route call on the same         *)
(* instance, with an unchanged matrix and stop set, returns the same       *)
(* ordered sequence of N stops as the first call.                          *)
C23_EarlierSecondCallSameRoute ==
    (impl = "earlier" /\ Len(returned) >= 2) =>
        /\ StopsOf(returned[2]) = StopsOf(returned[1])
        /\ Len(returned[2]) = NStops

-----------------------------------------------------------------------------
(* C25: optimize_route (current revision) fails only after the whole       *)
(* fallback chain is exhausted for a needed distance: the step in which    *)
(* the call fails is one in which a point-to-point query failed, never a   *)
(* failed matrix request alone while the queries still succeed.            *)
C25_FailureStep ==
    (impl = "current" /\ opt_pc # "raised" /\ opt_pc' = "raised") =>
        failures' > failures

C25_FailsOnlyAfterChain == [][C25_FailureStep]_vars

-----------------------------------------------------------------------------
(* C26: get_nearest_neighbor_route_detailed returns the route it builds: a *)
(* permutation of the validator's stops in which each stop has minimal     *)
(* road distance from the previous position (hub first) among the stops    *)
(* not yet chosen, so that compare_methods can score it.                   *)
C26_NearestNeighborReturned ==
    val_pc = "score" =>
        /\ nn_route # None
        /\ Len(nn_route) = Len(stops)
        /\ \A s \in 1..Len(stops) :
              Cardinality({ k \in 1..Len(nn_route) : nn_route[k] = stops[s] })
                  = Cardinality({ t \in 1..Len(stops) : stops[t] = stops[s] })
        /\ \A k \in 1..Len(nn_route) : \A l \in k..Len(nn_route) :
              LET prev == IF k = 1 THEN HubLoc ELSE nn_route[k - 1].coordinates
              IN RouteDetailsDistance(prev, nn_route[k].coordinates)
                     <= RouteDetailsDistance(prev, nn_route[l].coordinates)

-----------------------------------------------------------------------------
(* RouteValidator.get_euclidean_route, step by step *)

(* calculate_euclidean_distance: the haversine distance in meters; the     *)
(* stops of the validator and the hub lie on one latitude, where it is     *)
(* proportional to the difference in longitude (about 1104 m per 0.01      *)
(* degree at latitude 7.00)                                                *)
CalculateEuclideanDistance(point1, point2) ==
    1104 * Abs(Lon(point1) - Lon(point2))

(* distances.index(min(distances)): the first position of the minimum *)
LastIndexOfMin(distances) ==
    CHOOSE i \in 1..Len(distances) :
        \A j \in 1..Len(distances) :
            distances[i] <= distances[j] /\ (distances[j] = distances[i] => j <= i)

IndexOfMin(distances) ==
    CHOOSE i \in 1..Len(distances) :
        \A j \in 1..Len(distances) :
            distances[i] <= distances[j] /\ (distances[j] = distances[i] => i <= j)

(* lines 42-44 *)
GetEuclideanRouteBegin ==
    /\ euc_pc = "idle"
    /\ euc_remaining' = stops
    /\ euc_route' = <<>>
    /\ euc_current' = HubLoc
    /\ euc_pc' = "loop"
    /\ UNCHANGED <<stops, unvisited_stops, nn_built, nn_location, nn_route,
                   results, val_pc, val_failed, metVars>>
    /\ UNCHANGED <<optVars, matVars, zoneVars>>

(* lines 46-52: one iteration of 'while remaining_stops' *)
GetEuclideanRouteStep ==
    /\ euc_pc = "loop"
    /\ euc_remaining # <<>>
    /\ LET distances == [i \in 1..Len(euc_remaining) |->
                            CalculateEuclideanDistance(euc_current,
                                euc_remaining[i].coordinates)]
           nearest   == euc_remaining[IndexOfMin(distances)]
       IN /\ euc_route' = Append(euc_route, nearest)
          /\ euc_current' = nearest.coordinates
          /\ euc_remaining' = RemoveFirst(euc_remaining, nearest)
    /\ UNCHANGED euc_pc
    /\ UNCHANGED <<stops, unvisited_stops, nn_built, nn_location, nn_route,
                   results, val_pc, val_failed, metVars>>
    /\ UNCHANGED <<optVars, matVars, zoneVars>>

(* line 54 *)
GetEuclideanRouteReturn ==
    /\ euc_pc = "loop"
    /\ euc_remaining = <<>>
    /\ euc_pc' = "returned"
    /\ UNCHANGED <<euc_remaining, euc_route, euc_current>>
    /\ UNCHANGED <<stops, unvisited_stops, nn_built, nn_location, nn_route,
                   results, val_pc, val_failed, metVars>>
    /\ UNCHANGED <<optVars, matVars, zoneVars>>

InitEuclid ==
    /\ OptIdle /\ MatIdle /\ MetIdle /\ ZoneIdle
    /\ stops \in ValidatorStops
    /\ unvisited_stops = <<>>
    /\ nn_built = <<>>
    /\ nn_location = HubLoc
    /\ nn_route = None
    /\ results = None
    /\ val_pc = "idle"
    /\ val_failed = FALSE
    /\ euc_remaining = <<>>
    /\ euc_route = <<>>
    /\ euc_current = HubLoc
    /\ euc_pc = "idle"

NextEuclid ==
    \/ GetEuclideanRouteBegin
    \/ GetEuclideanRouteStep
    \/ GetEuclideanRouteReturn

SpecEuclid == InitEuclid /\ [][NextEuclid]_vars

(* C27: get_euclidean_route returns a permutation of the validator's stops *)
(* in which each chosen stop has minimal haversine distance from the       *)
(* previous position (hub first) among the stops not yet chosen, ties      *)
(* going to the stop earliest in input order, and it leaves self.stops     *)
(* unchanged.                                                              *)
EucPrev(k) == IF k = 1 THEN HubLoc ELSE euc_route[k - 1].coordinates

C27_RouteIsGreedy ==
    euc_pc = "returned" =>
        /\ Len(euc_route) = Len(stops)
        /\ \A s \in 1..Len(stops) : \E k \in 1..Len(euc_route) :
              euc_route[k] = stops[s]
        /\ \A k \in 1..Len(euc_route) : \A l \in (k + 1)..Len(euc_route) :
              LET dk == 1104 * Abs(Lon(EucPrev(k)) - Lon(euc_route[k].coordinates))
                  dl == 1104 * Abs(Lon(EucPrev(k)) - Lon(euc_route[l].coordinates))
              IN /\ dk <= dl
                 /\ dk = dl => euc_route[k].stop < euc_route[l].stop

C27_StopsKept == stops' = stops

C27_EuclideanRoute == [](C27_RouteIsGreedy) /\ [][C27_StopsKept]_vars

C27_Witness ==
    /\ euc_pc = "returned"
    /\ Len(euc_route) = MaxStops
    /\ euc_route[1].stop # 1
    /\ euc_route[1].coordinates = euc_route[2].coordinates
    /\ euc_route[1].stop < euc_route[2].stop
    /\ euc_route[3].coordinates # euc_route[2].coordinates

-----------------------------------------------------------------------------
(* C28: in the current revision the 'distance' recorded in the step just   *)
(* emitted equals the distance by which find_nearest_point selected that    *)
(* stop, whichever of the point-to-point queries raised.                    *)
C28_RecordedIsSelectedDistance ==
    (impl = "current" /\ opt_pc \in {"loop", "done"} /\ route_info # <<>>)
        => LET step == route_info[Len(route_info)]
           IN  step.distance = scan[step.stop]

-----------------------------------------------------------------------------
(* The optimizers with the interpreter running the while loop to its end:  *)
(* once optimize_route has entered the loop, the next iteration or the     *)
(* return statement is eventually executed.  The calls themselves are the  *)
(* caller's choice and carry no fairness.  Every step of the loop changes  *)
(* the position of the call or the visited set.                             *)
loopVars == <<opt_pc, visited>>

SpecOptFair ==
    /\ SpecOpt
    /\ WF_loopVars(CurLoopBody) /\ WF_loopVars(CurOptimizeRouteReturn)
    /\ WF_loopVars(OldLoopBody) /\ WF_loopVars(OldOptimizeRouteReturn)

(* a step of the while loop that emitted a stop *)
C29_IterationStep ==
    (opt_pc = "loop" /\ route_info' # route_info)
        => /\ Cardinality(visited) < Size(all_coordinates)
           /\ Len(route_info') = Len(route_info) + 1
           /\ \E idx \in DOMAIN all_coordinates \ visited :
                 /\ visited' = visited \cup {idx}
                 /\ current_location' = idx

(* a call that entered the while loop leaves it *)
C29_LoopEnds == (opt_pc = "loop") ~> (opt_pc \in {"done", "raised"})

(* a call that returned made one iteration per stop *)
C29_ReturnsAfterN ==
    opt_pc = "done"
        => /\ Len(route_info) = NStops
           /\ returned[Len(returned)] = route_info

(* C29: the greedy loop of optimize_route terminates: a call that entered  *)
(* the loop ends; every iteration adds one new index to visited and moves  *)
(* current_location to it, the loop never iterates with every point        *)
(* visited, and the call returns the route after exactly N iterations for  *)
(* N stops.                                                                 *)
C29_GreedyLoopTerminates ==
    /\ [](C29_ReturnsAfterN)
    /\ [][C29_IterationStep]_vars
    /\ C29_LoopEnds

-----------------------------------------------------------------------------
(* C6: for a point list longer than max_batch, every cell (i, j) whose      *)
(* indices fall in the same fetched block equals what the backend returns   *)
(* for that pair queried on its own in a single batch.                      *)
PairAlone(coords, i, j) ==
    IF i = j THEN RequestMatrix([k \in 0..0 |-> coords[i]])[0][0]
    ELSE RequestMatrix([k \in 0..1 |-> IF k = 0 THEN coords[i] ELSE coords[j]])[0][1]

C6_BlockCellsMatchBackend ==
    (mat_pc = "returned" /\ Size(coordinates) > max_batch) =>
        \A i \in DOMAIN coordinates : \A j \in DOMAIN coordinates :
            BlockOf(i) = BlockOf(j) =>
                result[i][j] = PairAlone(coordinates, i, j)

C6_Witness ==
    /\ mat_pc = "returned"
    /\ Size(coordinates) > 2 * max_batch
    /\ Len(requests) = 3
    /\ result[max_batch][max_batch + 1] > 0

(* C7: every cell whose indices lie in different fetched blocks is          *)
(* represented as "not computed"; no such cell holds the number 0.          *)
C7_CrossBlockNotZero ==
    mat_pc = "returned" =>
        \A i \in DOMAIN coordinates : \A j \in DOMAIN coordinates :
            BlockOf(i) # BlockOf(j) => result[i][j] # 0

=============================================================================
